---- MODULE Spec2Model ----
(***************************************************************************)
(* One run of the sncast command line client (crates/cast/src/main.rs):    *)
(* main resolves the configuration, builds the provider and dispatches     *)
(* the parsed command through run_async_command.                           *)
(*                                                                         *)
(* Strings are TLA+ strings, "" being String::default().  The accounts     *)
(* file path is a sequence of characters so that tilde expansion acts on   *)
(* it as shellexpand::tilde does; <<>> is Utf8PathBuf::default().          *)
(* Option<T> is a sequence of length at most one.                          *)
(***************************************************************************)
EXTENDS Naturals, Sequences, FiniteSets

VARIABLES
    pc,              \* position of the run inside main / run_async_command
    cli,             \* the parsed Cli struct
    home,            \* the home directory shellexpand::tilde sees (Option)
    profile,         \* the CastConfig as returned by parse_scarb_config
    config,          \* the local `config` of main / run_async_command
    exit,            \* "running", "ok" (main returned Ok(())), "err"
    error,           \* which `?` made main return early
    chain_id_queried,\* get_chain_id(&provider) has been awaited
    chain_id,        \* the chain id it returned (Option)
    network_name,    \* account delete: the network handed to delete
    op_call,         \* the arguments handed to the command operation
    result,          \* the `result` local: "none", "ok", "err"
    printed,         \* what was emitted: "none", "result", "default_multicall"
    wait_state,      \* WaitLoop state
    polls,           \* number of status polls of the current WaitLoop
    statuses,        \* the statuses those polls observed
    batch_len,       \* multicall run: number of entries of the batch
    results,         \* multicall run: per-entry outcomes reported so far
    accounts_before, \* account delete: content of the accounts file read
    accounts_after   \* account delete: content of the accounts file left

vars == <<pc, cli, home, profile, config, exit, error, chain_id_queried,
          chain_id, network_name, op_call, result, printed, wait_state,
          polls, statuses, batch_len, results, accounts_before,
          accounts_after>>

----------------------------------------------------------------------------
(* Bounds of the model *)

MaxPolls == 3
MaxBatch == 4

----------------------------------------------------------------------------
(* Option<T> *)

None == <<>>
Some(x) == <<x>>
IsSome(o) == o # <<>>
Unwrap(o) == o[1]

----------------------------------------------------------------------------
(* Input domains *)

Homes == {None, Some(<<"/", "h">>), Some(<<"~", "/", "h">>)}

CliPaths == {None, Some(<<>>), Some(<<"~", "/", "c">>), Some(<<"c">>)}
ProfilePaths == {<<>>, <<"~", "/", "p">>}

DEFAULT_ACCOUNTS_FILE == <<"~", "/", "d">>

DefaultConfig ==
    [rpc_url |-> "", account |-> "", keystore |-> "", accounts_file |-> <<>>]

ProfileConfigs ==
    [rpc_url : {"", "profile_url"}, account : {"", "profile_account"},
     keystore : {"", "profile_keystore"}, accounts_file : ProfilePaths]

CommandsOf(kind, names, networks, outputs) ==
    {[kind |-> kind, name |-> n, network |-> w, output_path |-> o] :
        n \in names, w \in networks, o \in outputs}

ChainIds == {"SN_MAIN", "SN_GOERLI"}

Commands ==
    CommandsOf("declare", {None}, {None}, {None})
    \cup CommandsOf("deploy", {None}, {None}, {None})
    \cup CommandsOf("call", {None}, {None}, {None})
    \cup CommandsOf("invoke", {None}, {None}, {None})
    \cup CommandsOf("multicall new", {None}, {None}, {None, Some("out")})
    \cup CommandsOf("multicall run", {None}, {None}, {None})
    \cup CommandsOf("account add", {Some("n")}, {None}, {None})
    \cup CommandsOf("account create", {None, Some("n")}, {None}, {None})
    \cup CommandsOf("account deploy", {None, Some("n")}, {None}, {None})
    \cup CommandsOf("account delete", {None, Some("n")},
                    {None, Some("alpha-mainnet")}, {None})
    \cup CommandsOf("show-config", {None}, {None}, {None})
    \cup CommandsOf("script", {None}, {None}, {None})

Clis ==
    [rpc_url : {None, Some("cli_url")},
     account : {None, Some("cli_account")},
     accounts_file_path : CliPaths,
     keystore : {None, Some("cli_keystore")},
     wait : BOOLEAN,
     command : Commands]

\* Records of the accounts file, keyed by (network, name)
AccountsFiles ==
    {{},
     {<<"alpha-mainnet", "n">>},
     {<<"alpha-goerli", "n">>},
     {<<"alpha-mainnet", "n">>, <<"alpha-goerli", "n">>},
     {<<"alpha-mainnet", "n">>, <<"alpha-goerli", "n">>, <<"alpha-mainnet", "m">>}}

----------------------------------------------------------------------------
(* update_cast_config *)

\* shellexpand::tilde: a leading "~" that ends the path or is followed by
\* "/" is replaced by the home directory when one is known
tilde(path, h) ==
    IF /\ Len(path) >= 1
       /\ path[1] = "~"
       /\ (Len(path) = 1 \/ path[2] = "/")
       /\ IsSome(h)
    THEN Unwrap(h) \o SubSeq(path, 2, Len(path))
    ELSE path

clone_or_else(field, config_field) ==
    IF IsSome(field) THEN Unwrap(field) ELSE config_field

update_cast_config_no_tilde(c, args, h) ==
    LET base == IF c.accounts_file = <<>> THEN DEFAULT_ACCOUNTS_FILE
                ELSE c.accounts_file
        new_accounts_file == clone_or_else(args.accounts_file_path, base)
    IN [rpc_url |-> clone_or_else(args.rpc_url, c.rpc_url),
        account |-> clone_or_else(args.account, c.account),
        keystore |-> clone_or_else(args.keystore, c.keystore),
        accounts_file |-> new_accounts_file]

update_cast_config_profile_first(c, args, h) ==
    LET base == IF c.accounts_file = <<>> THEN DEFAULT_ACCOUNTS_FILE
                ELSE c.accounts_file
        new_accounts_file == clone_or_else(args.accounts_file_path, base)
    IN [rpc_url |-> IF c.rpc_url # "" THEN c.rpc_url
                    ELSE clone_or_else(args.rpc_url, c.rpc_url),
        account |-> clone_or_else(args.account, c.account),
        keystore |-> clone_or_else(args.keystore, c.keystore),
        accounts_file |-> tilde(new_accounts_file, h)]

update_cast_config(c, args, h) ==
    LET base == IF c.accounts_file = <<>> THEN DEFAULT_ACCOUNTS_FILE
                ELSE c.accounts_file
        new_accounts_file == clone_or_else(args.accounts_file_path, base)
    IN [rpc_url |-> clone_or_else(args.rpc_url, c.rpc_url),
        account |-> clone_or_else(args.account, c.account),
        keystore |-> clone_or_else(args.keystore, c.keystore),
        accounts_file |-> tilde(new_accounts_file, h)]

----------------------------------------------------------------------------
(* The operations behind the command branches *)

NoCall ==
    [op |-> "none", account |-> "", accounts_file |-> <<>>, keystore |-> "",
     keystore_path |-> None, account_path |-> None, wait |-> FALSE,
     network |-> "", name_used |-> FALSE]

OpCall(op, c, wait) ==
    [NoCall EXCEPT !.op = op, !.account = c.account,
                   !.accounts_file = c.accounts_file,
                   !.keystore = c.keystore, !.wait = wait]

\* print_command_result hands back the outcome main returns
print_command_result(res) == IF res = "ok" THEN "ok" ELSE "err"

chain_id_to_network_name(id) ==
    IF id = "SN_MAIN" THEN "alpha-mainnet" ELSE "alpha-goerli"

\* account::delete::delete on the accounts file
delete_found(file, name, network) == <<network, name>> \in file
delete(file, name, network) == file \ {<<network, name>>}

FinalStatuses == {"Accepted", "Rejected"}
Terminal == {"Accepted", "Rejected", "TimedOut"}
WaitCommands ==
    {"declare", "deploy", "invoke", "multicall run", "account deploy"}

----------------------------------------------------------------------------
Init ==
    /\ pc = "parse_scarb_config"
    /\ cli \in Clis
    /\ home \in Homes
    /\ profile = DefaultConfig
    /\ config = DefaultConfig
    /\ exit = "running"
    /\ error = ""
    /\ chain_id_queried = FALSE
    /\ chain_id = None
    /\ network_name = ""
    /\ op_call = NoCall
    /\ result = "none"
    /\ printed = "none"
    /\ wait_state = "Idle"
    /\ polls = 0
    /\ statuses = <<>>
    /\ batch_len = 0
    /\ results = <<>>
    /\ accounts_before = {}
    /\ accounts_after = {}


----------------------------------------------------------------------------
(* Helpers of the actions *)

inputs == <<cli, home>>
chainVars == <<chain_id_queried, chain_id>>
waitVars == <<wait_state, polls, statuses>>
batchVars == <<batch_len, results>>
fileVars == <<accounts_before, accounts_after>>

Kind == cli.command.kind

\* `?` on an Err: main returns the error
Fail(kind) ==
    /\ exit' = "err"
    /\ error' = kind
    /\ pc' = "done"

\* SubmissionOrchestrator.submit: the operation submits one transaction and
\* enters the WaitLoop when it was handed wait = true and the submission
\* went through
SubmitTx(call) ==
    /\ op_call' = call
    /\ \E r \in {"ok", "err"} :
         IF r = "ok" /\ call.wait
         THEN /\ wait_state' = "Received"
              /\ polls' = 0
              /\ statuses' = <<>>
              /\ pc' = "wait"
              /\ UNCHANGED result
         ELSE /\ result' = r
              /\ pc' = "print"
              /\ UNCHANGED waitVars

----------------------------------------------------------------------------
(* main *)

ParseScarbConfig ==
    /\ pc = "parse_scarb_config"
    /\ \/ /\ Fail("config")
          /\ UNCHANGED <<profile, config>>
       \/ /\ \E c \in ProfileConfigs :
                /\ profile' = c
                /\ config' = c
          /\ pc' = "update_cast_config"
          /\ UNCHANGED <<exit, error>>
    /\ UNCHANGED <<inputs, chainVars, network_name, op_call, result, printed,
                   waitVars, batchVars, fileVars>>

UpdateCastConfig ==
    /\ pc = "update_cast_config"
    /\ config' = update_cast_config(config, cli, home)
    /\ pc' = "get_provider"
    /\ UNCHANGED <<inputs, profile, exit, error, chainVars, network_name,
                   op_call, result, printed, waitVars, batchVars, fileVars>>

GetProvider ==
    /\ pc = "get_provider"
    /\ \/ Fail("provider_config")
       \/ /\ pc' = IF Kind = "script" THEN "script" ELSE "run_async_command"
          /\ UNCHANGED <<exit, error>>
    /\ UNCHANGED <<inputs, profile, config, chainVars, network_name, op_call,
                   result, printed, waitVars, batchVars, fileVars>>

RunScript ==
    /\ pc = "script"
    /\ op_call' = OpCall("script", config, FALSE)
    /\ result' \in {"ok", "err"}
    /\ pc' = "print"
    /\ UNCHANGED <<inputs, profile, config, exit, error, chainVars,
                   network_name, printed, waitVars, batchVars, fileVars>>

PrintCommandResult ==
    /\ pc = "print"
    /\ printed' = "result"
    /\ exit' = print_command_result(result)
    /\ pc' = "done"
    /\ UNCHANGED <<inputs, profile, config, error, chainVars, network_name,
                   op_call, result, waitVars, batchVars, fileVars>>

----------------------------------------------------------------------------
(* run_async_command: declare, deploy, call, invoke, multicall *)

GetAccountIgnoresError ==
    /\ pc = "run_async_command"
    /\ Kind \in {"declare", "deploy", "invoke", "multicall run"}
    /\ \/ /\ exit' = "ok"
          /\ pc' = "done"
          /\ UNCHANGED error
       \/ /\ pc' = Kind
          /\ UNCHANGED <<exit, error>>
    /\ UNCHANGED <<inputs, profile, config, chainVars, network_name, op_call,
                   result, printed, waitVars, batchVars, fileVars>>

GetAccount ==
    /\ pc = "run_async_command"
    /\ Kind \in {"declare", "deploy", "invoke", "multicall run"}
    /\ \/ Fail("signer")
       \/ /\ pc' = Kind
          /\ UNCHANGED <<exit, error>>
    /\ UNCHANGED <<inputs, profile, config, chainVars, network_name, op_call,
                   result, printed, waitVars, batchVars, fileVars>>

DeclareNeverWaits ==
    /\ pc = "declare"
    /\ SubmitTx(OpCall("declare", config, FALSE))
    /\ UNCHANGED <<inputs, profile, config, exit, error, chainVars,
                   network_name, printed, batchVars, fileVars>>

Declare ==
    /\ pc = "declare"
    /\ SubmitTx(OpCall("declare", config, cli.wait))
    /\ UNCHANGED <<inputs, profile, config, exit, error, chainVars,
                   network_name, printed, batchVars, fileVars>>

Deploy ==
    /\ pc = "deploy"
    /\ SubmitTx(OpCall("deploy", config, cli.wait))
    /\ UNCHANGED <<inputs, profile, config, exit, error, chainVars,
                   network_name, printed, batchVars, fileVars>>

Invoke ==
    /\ pc = "invoke"
    /\ SubmitTx(OpCall("invoke", config, cli.wait))
    /\ UNCHANGED <<inputs, profile, config, exit, error, chainVars,
                   network_name, printed, batchVars, fileVars>>

GetBlockId ==
    /\ pc = "run_async_command"
    /\ Kind = "call"
    /\ \/ Fail("block_id")
       \/ /\ pc' = "call"
          /\ UNCHANGED <<exit, error>>
    /\ UNCHANGED <<inputs, profile, config, chainVars, network_name, op_call,
                   result, printed, waitVars, batchVars, fileVars>>

Call ==
    /\ pc = "call"
    /\ op_call' = OpCall("call", config, FALSE)
    /\ result' \in {"ok", "err"}
    /\ pc' = "print"
    /\ UNCHANGED <<inputs, profile, config, exit, error, chainVars,
                   network_name, printed, waitVars, batchVars, fileVars>>

MulticallNew ==
    /\ pc = "run_async_command"
    /\ Kind = "multicall new"
    /\ IF IsSome(cli.command.output_path)
       THEN /\ op_call' = OpCall("multicall new", config, FALSE)
            /\ result' \in {"ok", "err"}
            /\ pc' = "print"
            /\ UNCHANGED <<exit, printed>>
       ELSE /\ printed' = "default_multicall"
            /\ exit' = "ok"
            /\ pc' = "done"
            /\ UNCHANGED <<op_call, result>>
    /\ UNCHANGED <<inputs, profile, config, error, chainVars, network_name,
                   waitVars, batchVars, fileVars>>

\* multicall::run::run is handed the batch file, the account and cli.wait
MulticallRun ==
    /\ pc = "multicall run"
    /\ op_call' = OpCall("multicall run", config, cli.wait)
    /\ batch_len' \in 0..MaxBatch
    /\ results' = <<>>
    /\ pc' = "multicall_entries"
    /\ UNCHANGED <<inputs, profile, config, exit, error, chainVars,
                   network_name, result, printed, waitVars, fileVars>>


\* MulticallRunner: the next entry is submitted only while no entry failed
MulticallSubmitContinuesAfterFailure ==
    /\ pc = "multicall_entries"
    /\ Len(results) < batch_len
    /\ \E r \in {"ok", "fail"} :
         /\ results' = Append(results, r)
         /\ IF op_call.wait /\ r = "ok"
            THEN /\ wait_state' = "Received"
                 /\ polls' = 0
                 /\ statuses' = <<>>
                 /\ pc' = "wait"
            ELSE /\ pc' = "multicall_entries"
                 /\ UNCHANGED waitVars
    /\ UNCHANGED <<inputs, profile, config, exit, error, chainVars,
                   network_name, op_call, result, printed, batch_len,
                   fileVars>>

MulticallSubmit ==
    /\ pc = "multicall_entries"
    /\ Len(results) < batch_len
    /\ \E r \in {"ok", "fail"} :
         /\ results' = Append(results, r)
         /\ IF r = "fail"
            THEN /\ result' = "err"
                 /\ pc' = "print"
                 /\ UNCHANGED waitVars
            ELSE IF op_call.wait
            THEN /\ wait_state' = "Received"
                 /\ polls' = 0
                 /\ statuses' = <<>>
                 /\ pc' = "wait"
                 /\ UNCHANGED result
            ELSE /\ pc' = "multicall_entries"
                 /\ UNCHANGED <<result, waitVars>>
    /\ UNCHANGED <<inputs, profile, config, exit, error, chainVars,
                   network_name, op_call, printed, batch_len, fileVars>>

MulticallFinish ==
    /\ pc = "multicall_entries"
    /\ Len(results) = batch_len
    /\ result' = IF \E i \in 1..Len(results) : results[i] = "fail"
                 THEN "err" ELSE "ok"
    /\ pc' = "print"
    /\ UNCHANGED <<inputs, profile, config, exit, error, chainVars,
                   network_name, op_call, printed, waitVars, batchVars,
                   fileVars>>

\* WaitLoop: one poll of the transaction status
WaitPoll ==
    /\ pc = "wait"
    /\ wait_state \in {"Received", "Pending"}
    /\ \E s \in {"Pending"} \cup FinalStatuses :
         /\ polls' = polls + 1
         /\ statuses' = Append(statuses, s)
         /\ wait_state' = IF s \in FinalStatuses THEN s
                          ELSE IF polls + 1 >= MaxPolls THEN "TimedOut"
                          ELSE "Pending"
    /\ UNCHANGED <<pc, inputs, profile, config, exit, error, chainVars,
                   network_name, op_call, result, printed, batchVars,
                   fileVars>>

\* WaitLoop: a terminal state ends the polling and the operation goes on
WaitDone ==
    /\ pc = "wait"
    /\ wait_state \in Terminal
    /\ IF op_call.op = "multicall run"
       THEN /\ pc' = "multicall_entries"
            /\ UNCHANGED result
       ELSE /\ pc' = "print"
            /\ result' = "ok"
    /\ UNCHANGED <<inputs, profile, config, exit, error, chainVars,
                   network_name, op_call, printed, waitVars, batchVars,
                   fileVars>>

----------------------------------------------------------------------------
(* run_async_command: account, show-config *)

\* get_chain_id(&provider).await?
GetChainId(next) ==
    /\ chain_id_queried' = TRUE
    /\ \/ /\ Fail("chain_id")
          /\ UNCHANGED chain_id
       \/ /\ \E c \in ChainIds : chain_id' = Some(c)
          /\ pc' = next
          /\ UNCHANGED <<exit, error>>

AccountAdd ==
    /\ pc = "run_async_command"
    /\ Kind = "account add"
    /\ config' = [config EXCEPT !.account = Unwrap(cli.command.name)]
    /\ op_call' = [OpCall("account add", config', FALSE)
                     EXCEPT !.name_used = TRUE]
    /\ result' \in {"ok", "err"}
    /\ pc' = "print"
    /\ UNCHANGED <<inputs, profile, exit, error, chainVars, network_name,
                   printed, waitVars, batchVars, fileVars>>

AccountCreateChainId ==
    /\ pc = "run_async_command"
    /\ Kind = "account create"
    /\ GetChainId("account create")
    /\ UNCHANGED <<inputs, profile, config, network_name, op_call, result,
                   printed, waitVars, batchVars, fileVars>>

AccountCreateNameAlways ==
    /\ pc = "account create"
    /\ IF config.keystore = "" /\ ~IsSome(cli.command.name)
       THEN /\ Fail("name")
            /\ UNCHANGED <<config, op_call, result>>
       ELSE /\ config' = IF IsSome(cli.command.name)
                         THEN [config EXCEPT
                                 !.account = Unwrap(cli.command.name)]
                         ELSE config
            /\ op_call' = [OpCall("account create", config', FALSE)
                             EXCEPT !.name_used = (config.keystore = "")]
            /\ result' \in {"ok", "err"}
            /\ pc' = "print"
            /\ UNCHANGED <<exit, error>>
    /\ UNCHANGED <<inputs, profile, chainVars, network_name, printed,
                   waitVars, batchVars, fileVars>>

AccountCreate ==
    /\ pc = "account create"
    /\ IF config.keystore = "" /\ ~IsSome(cli.command.name)
       THEN /\ Fail("name")
            /\ UNCHANGED <<config, op_call, result>>
       ELSE /\ config' = IF config.keystore = ""
                         THEN [config EXCEPT
                                 !.account = Unwrap(cli.command.name)]
                         ELSE config
            /\ op_call' = [OpCall("account create", config', FALSE)
                             EXCEPT !.name_used = (config.keystore = "")]
            /\ result' \in {"ok", "err"}
            /\ pc' = "print"
            /\ UNCHANGED <<exit, error>>
    /\ UNCHANGED <<inputs, profile, chainVars, network_name, printed,
                   waitVars, batchVars, fileVars>>

AccountDeployChainId ==
    /\ pc = "run_async_command"
    /\ Kind = "account deploy"
    /\ GetChainId("account deploy")
    /\ UNCHANGED <<inputs, profile, config, network_name, op_call, result,
                   printed, waitVars, batchVars, fileVars>>

DeployCall(c, name_used, wait) ==
    [OpCall("account deploy", c, wait) EXCEPT
        !.name_used = name_used,
        !.keystore = "",
        !.keystore_path = IF config.keystore # "" THEN Some(config.keystore)
                          ELSE None,
        !.account_path = IF config.account # "" THEN Some(config.account)
                         ELSE None]

AccountDeployKeystoreAlways ==
    /\ pc = "account deploy"
    /\ IF config.keystore = "" /\ ~IsSome(cli.command.name)
       THEN /\ Fail("name")
            /\ UNCHANGED <<config, op_call, result, waitVars>>
       ELSE /\ config' = IF config.keystore = ""
                         THEN [config EXCEPT
                                 !.account = Unwrap(cli.command.name)]
                         ELSE config
            /\ SubmitTx([DeployCall(config', config.keystore = "", cli.wait)
                           EXCEPT !.keystore_path = Some(config.keystore)])
            /\ UNCHANGED <<exit, error>>
    /\ UNCHANGED <<inputs, profile, chainVars, network_name, printed,
                   batchVars, fileVars>>

AccountDeploy ==
    /\ pc = "account deploy"
    /\ IF config.keystore = "" /\ ~IsSome(cli.command.name)
       THEN /\ Fail("name")
            /\ UNCHANGED <<config, op_call, result, waitVars>>
       ELSE /\ config' = IF config.keystore = ""
                         THEN [config EXCEPT
                                 !.account = Unwrap(cli.command.name)]
                         ELSE config
            /\ SubmitTx(DeployCall(config', config.keystore = "", cli.wait))
            /\ UNCHANGED <<exit, error>>
    /\ UNCHANGED <<inputs, profile, chainVars, network_name, printed,
                   batchVars, fileVars>>

AccountDeleteNameIgnoresNetwork ==
    /\ pc = "run_async_command"
    /\ Kind = "account delete"
    /\ IF ~IsSome(cli.command.name)
       THEN /\ Fail("name")
            /\ UNCHANGED config
       ELSE /\ config' = [config EXCEPT !.account = Unwrap(cli.command.name)]
            /\ pc' = "delete_chain_id"
            /\ UNCHANGED <<exit, error>>
    /\ UNCHANGED <<inputs, profile, chainVars, network_name, op_call, result,
                   printed, waitVars, batchVars, fileVars>>

AccountDeleteName ==
    /\ pc = "run_async_command"
    /\ Kind = "account delete"
    /\ IF ~IsSome(cli.command.name)
       THEN /\ Fail("name")
            /\ UNCHANGED <<config, network_name>>
       ELSE /\ config' = [config EXCEPT !.account = Unwrap(cli.command.name)]
            /\ IF IsSome(cli.command.network)
               THEN /\ network_name' = Unwrap(cli.command.network)
                    /\ pc' = "account delete"
               ELSE /\ pc' = "delete_chain_id"
                    /\ UNCHANGED network_name
            /\ UNCHANGED <<exit, error>>
    /\ UNCHANGED <<inputs, profile, chainVars, op_call, result, printed,
                   waitVars, batchVars, fileVars>>

AccountDeleteChainId ==
    /\ pc = "delete_chain_id"
    /\ GetChainId("account delete")
    /\ network_name' = IF IsSome(chain_id')
                       THEN chain_id_to_network_name(Unwrap(chain_id'))
                       ELSE network_name
    /\ UNCHANGED <<inputs, profile, config, op_call, result, printed,
                   waitVars, batchVars, fileVars>>

AccountDelete ==
    /\ pc = "account delete"
    /\ op_call' = [OpCall("account delete", config, FALSE) EXCEPT
                     !.name_used = TRUE, !.network = network_name]
    /\ \E file \in AccountsFiles :
         /\ accounts_before' = file
         /\ IF delete_found(file, config.account, network_name)
            THEN /\ accounts_after' =
                        delete(file, config.account, network_name)
                 /\ result' = "ok"
            ELSE /\ accounts_after' = file
                 /\ result' = "err"
    /\ pc' = "print"
    /\ UNCHANGED <<inputs, profile, config, exit, error, chainVars,
                   network_name, printed, waitVars, batchVars>>

ShowConfig ==
    /\ pc = "run_async_command"
    /\ Kind = "show-config"
    /\ op_call' = OpCall("show-config", config, FALSE)
    /\ result' \in {"ok", "err"}
    /\ pc' = "print"
    /\ UNCHANGED <<inputs, profile, config, exit, error, chainVars,
                   network_name, printed, waitVars, batchVars, fileVars>>

----------------------------------------------------------------------------
Next ==
    \/ ParseScarbConfig
    \/ UpdateCastConfig
    \/ GetProvider
    \/ RunScript
    \/ PrintCommandResult
    \/ GetAccount
    \/ Declare
    \/ Deploy
    \/ Invoke
    \/ GetBlockId
    \/ Call
    \/ MulticallNew
    \/ MulticallRun
    \/ MulticallSubmit
    \/ MulticallFinish
    \/ WaitPoll
    \/ WaitDone
    \/ AccountAdd
    \/ AccountCreateChainId
    \/ AccountCreate
    \/ AccountDeployChainId
    \/ AccountDeploy
    \/ AccountDeleteName
    \/ AccountDeleteChainId
    \/ AccountDelete
    \/ ShowConfig

Spec == Init /\ [][Next]_vars


----------------------------------------------------------------------------
(* Properties *)

AfterMerge == pc = "get_provider"
Merged == pc \notin {"parse_scarb_config", "update_cast_config"}
Dispatched ==
    /\ Merged
    /\ pc # "get_provider"
    /\ error \notin {"config", "provider_config"}

\* command line value, else profile value when set, else built-in default
Precedence(override, profile_value, unset, default) ==
    IF IsSome(override) THEN Unwrap(override)
    ELSE IF profile_value # unset THEN profile_value
    ELSE default

\* C1 (as stated): after update_cast_config each of rpc_url, account,
\* keystore and accounts_file equals the command line value when it is set,
\* else the profile value when that is set, else the built-in default.
C1_OverrideEqualsValue ==
    AfterMerge =>
        /\ config.rpc_url = Precedence(cli.rpc_url, profile.rpc_url, "", "")
        /\ config.account = Precedence(cli.account, profile.account, "", "")
        /\ config.keystore =
              Precedence(cli.keystore, profile.keystore, "", "")
        /\ config.accounts_file =
              Precedence(cli.accounts_file_path, profile.accounts_file,
                         <<>>, DEFAULT_ACCOUNTS_FILE)

\* C1 (amended): rpc_url, account and keystore equal the value chosen by
\* precedence; accounts_file equals the tilde expansion of the value chosen
\* by precedence.
C1_OverridePrecedence ==
    AfterMerge =>
        /\ config.rpc_url = Precedence(cli.rpc_url, profile.rpc_url, "", "")
        /\ config.account = Precedence(cli.account, profile.account, "", "")
        /\ config.keystore =
              Precedence(cli.keystore, profile.keystore, "", "")
        /\ config.accounts_file =
              tilde(Precedence(cli.accounts_file_path, profile.accounts_file,
                               <<>>, DEFAULT_ACCOUNTS_FILE), home)

C1_Witness ==
    /\ AfterMerge
    /\ cli.rpc_url = Some("cli_url")
    /\ profile.rpc_url = "profile_url"
    /\ config.rpc_url = "cli_url"
    /\ cli.accounts_file_path = Some(<<"~", "/", "c">>)
    /\ profile.accounts_file = <<"~", "/", "p">>
    /\ config.accounts_file = <<"/", "h", "/", "c">>

C4_ErrorsBeforeProviderCalls ==
    (exit = "err" /\ error \in {"config", "provider_config", "name", "signer"})
        => (~chain_id_queried /\ op_call = NoCall)

C6_DeleteOneNetwork ==
    op_call.op = "account delete" =>
        /\ op_call.account = Unwrap(cli.command.name)
        /\ IsSome(cli.command.network) =>
              /\ op_call.network = Unwrap(cli.command.network)
              /\ ~chain_id_queried
        /\ ~IsSome(cli.command.network) =>
              /\ chain_id_queried
              /\ IsSome(chain_id)
              /\ op_call.network = chain_id_to_network_name(Unwrap(chain_id))
        /\ accounts_after \subseteq accounts_before
        /\ \A r \in accounts_before :
              r # <<op_call.network, op_call.account>> => r \in accounts_after
        /\ <<op_call.network, op_call.account>> \notin accounts_after
        /\ result = "ok" <=>
              <<op_call.network, op_call.account>> \in accounts_before

C6_Witness ==
    /\ op_call.op = "account delete"
    /\ cli.command.network = None
    /\ chain_id = Some("SN_GOERLI")
    /\ accounts_before =
          {<<"alpha-mainnet", "n">>, <<"alpha-goerli", "n">>}
    /\ accounts_after = {<<"alpha-mainnet", "n">>}

AllPending(seq, n) == \A i \in 1..n : seq[i] = "Pending"

\* C7: a requested wait ends in the first final status observed, after
\* exactly as many polls as it took to observe it, or in TimedOut after
\* MaxPolls polls that were all Pending; no poll follows a terminal state.
C7_WaitLoopTerminates ==
    /\ polls = Len(statuses)
    /\ polls <= MaxPolls
    /\ polls >= 1 => AllPending(statuses, polls - 1)
    /\ wait_state \in FinalStatuses =>
          polls >= 1 /\ statuses[polls] = wait_state
    /\ wait_state = "TimedOut" =>
          polls = MaxPolls /\ AllPending(statuses, polls)
    /\ wait_state \in {"Received", "Pending"} =>
          polls < MaxPolls /\ AllPending(statuses, polls)
    /\ wait_state = "Received" => polls = 0
    /\ wait_state # "Idle" => cli.wait /\ op_call.op \in WaitCommands
    /\ (/\ pc \in {"print", "done"}
        /\ cli.wait
        /\ \/ /\ op_call.op \in WaitCommands \ {"multicall run"}
              /\ result = "ok"
           \/ /\ op_call.op = "multicall run"
              /\ results # <<>>
              /\ results[1] = "ok")
          => wait_state \in Terminal

C7_Witness ==
    /\ pc = "done"
    /\ Kind = "declare"
    /\ wait_state = "Accepted"
    /\ polls = 3
    /\ statuses = <<"Pending", "Pending", "Accepted">>

\* C8: multicall run reports the entries in order up to and including the
\* first failing one and attempts none after it; with no failing entry it
\* reports one success per entry.
C8_MulticallFailFast ==
    /\ Len(results) <= batch_len
    /\ \A i \in 1..Len(results) : i < Len(results) => results[i] = "ok"
    /\ (pc \in {"print", "done"} /\ op_call.op = "multicall run") =>
          \/ /\ Len(results) = batch_len
             /\ \A i \in 1..Len(results) : results[i] = "ok"
             /\ result = "ok"
          \/ /\ results # <<>>
             /\ results[Len(results)] = "fail"
             /\ result = "err"

C8_Witness ==
    /\ pc = "done"
    /\ batch_len = 4
    /\ results = <<"ok", "ok", "fail">>

StartsWithTilde(p) ==
    /\ Len(p) >= 1
    /\ p[1] = "~"
    /\ (Len(p) = 1 \/ p[2] = "/")

\* C9: the accounts file path is the override, else the profile value, else
\* the built-in default, with its leading tilde replaced once by the home
\* directory.
C9_AccountsFileExpanded ==
    AfterMerge =>
        LET chosen == IF IsSome(cli.accounts_file_path)
                      THEN Unwrap(cli.accounts_file_path)
                      ELSE IF profile.accounts_file # <<>>
                      THEN profile.accounts_file
                      ELSE DEFAULT_ACCOUNTS_FILE
        IN IF StartsWithTilde(chosen) /\ IsSome(home)
           THEN config.accounts_file = Unwrap(home) \o Tail(chosen)
           ELSE config.accounts_file = chosen

C9_Witness ==
    /\ AfterMerge
    /\ cli.accounts_file_path = None
    /\ profile.accounts_file = <<>>
    /\ home = Some(<<"~", "/", "h">>)
    /\ config.accounts_file = <<"~", "/", "h", "/", "d">>

MissingName ==
    /\ ~IsSome(cli.command.name)
    /\ \/ Kind \in {"account create", "account deploy"} /\ config.keystore = ""
       \/ Kind = "account delete"

\* C10: a missing --name makes account create and account deploy without a
\* keystore, and account delete always, fail with "required argument --name
\* not provided" before the operation is invoked or anything is printed; a
\* given --name replaces the account identifier; with a keystore, create and
\* deploy keep the configured identifier.
C10_MissingNameFails ==
    /\ (pc = "done" /\ Dispatched /\ MissingName) =>
          /\ exit = "err"
          /\ error = "name"
          /\ op_call = NoCall
          /\ printed = "none"
    /\ op_call.op \in {"account create", "account deploy", "account delete"}
          => op_call.account =
                IF op_call.op # "account delete" /\ config.keystore # ""
                THEN clone_or_else(cli.account, profile.account)
                ELSE Unwrap(cli.command.name)

====
